---- MODULE Spec2Model ----
(***************************************************************************)
(* A model of the tourism-bot backend: the HTTP handlers of server.py, the *)
(* orchestration of lib/bot.py and the request-scoped database session of  *)
(* lib/database.py, over the tables users, chat_sessions and messages.     *)
(*                                                                         *)
(* Texts (queries, replies, validator output) are sequences of one-        *)
(* character strings, so that split and strip are computed as Python       *)
(* computes them.  The LLM is the environment: every call returns any text *)
(* of a bounded set, or raises.                                            *)
(*                                                                         *)
(* Four specifications:                                                    *)
(*   Spec       the server as shipped, started on an empty database;       *)
(*   SpecBot    response_bot called with all five of its parameters on a   *)
(*              bounded family of message tables;                          *)
(*   SpecParse  validate_response applied to a bounded set of validator    *)
(*              outputs;                                                   *)
(*   SpecStore  the two read handlers applied to a bounded family of       *)
(*              table contents that the schema allows.                     *)
(***************************************************************************)
EXTENDS Integers, Sequences, FiniteSets, TLC

VARIABLES
    users,      \* committed rows of table users
    sessions,   \* committed rows of table chat_sessions
    messages,   \* committed rows of table messages
    regs,       \* POST /register requests in flight
    resps,      \* POST /respond requests in flight
    bot,        \* the frame of a response_bot call
    vcall,      \* the frame of a direct validate_response call
    reply       \* the last reply of a read handler

vars == <<users, sessions, messages, regs, resps, bot, vcall, reply>>

(***************************************************************************)
(* Bounds of the model.                                                    *)
(***************************************************************************)
MaxReg == 2         \* concurrent POST /register requests
MaxResp == 1        \* POST /respond requests served at a time
MaxHist == 2        \* stored messages in a table drawn for response_bot
MaxPad == 1         \* whitespace characters padding a part of the validator output
MaxSessions == 11   \* chat sessions in a table drawn for the read handlers

(***************************************************************************)
(* Texts.                                                                  *)
(***************************************************************************)
Text(c, n) == [i \in 1..n |-> c]

Q1 == <<"q">>
R1 == <<"r", "1">>
R2 == <<"r", "2">>
Foo == <<"F", "o", "o">>
Bar == <<"B", "a", "r">>
Garbage == <<"g", "a", "r", "b", "a", "g", "e">>
Html1 == <<"<", "1", ">">>
Html2 == <<"<", "2", ">">>
NL == <<"\n">>

Queries == {Q1}

\* create_tourism_bot: the system prompt, an opaque text.
system_prompt == <<"S">>

\* The literal the first line of the validator output is compared with.
VALID == <<"V", "A", "L", "I", "D">>
INVALID == <<"I", "N">> \o VALID

\* The notice response_bot appends to the system prompt when it regenerates.
ImportantNotice == <<"\n", "!">>
\* The extra human message of the regeneration request.
CorrectionRequest == <<"c">>

\* The characters str.strip() removes by default that the model uses.
Whitespace == {" ", "\t", "\n", "\r"}

RECURSIVE LStrip(_)
LStrip(s) ==
    IF s # <<>> /\ Head(s) \in Whitespace THEN LStrip(Tail(s)) ELSE s

RECURSIVE RStrip(_)
RStrip(s) ==
    IF s # <<>> /\ s[Len(s)] \in Whitespace
    THEN RStrip(SubSeq(s, 1, Len(s) - 1))
    ELSE s

\* str.strip()
Strip(s) == RStrip(LStrip(s))

Unstripped(s) == s

\* lines[1].strip() of validate_response
StripRest(s) == Strip(s)

\* lines[0].strip() of validate_response
StripFirst(s) == Strip(s)

MinOf(S) == CHOOSE x \in S : \A y \in S : x <= y
MaxOf(S) == CHOOSE x \in S : \A y \in S : y <= x

\* str.split('\n', 1): at most one split, at the first line break.
Split1(s) ==
    LET breaks == {i \in 1..Len(s) : s[i] = "\n"}
    IN  IF breaks = {}
        THEN <<s>>
        ELSE <<SubSeq(s, 1, MinOf(breaks) - 1),
               SubSeq(s, MinOf(breaks) + 1, Len(s))>>

\* validate_response, from the validator's output on: (is_valid, validated_response)
ParseValidation(validation_result, response) ==
    LET lines == Split1(validation_result)
    IN  [is_valid |-> StripFirst(lines[1]) = VALID,
         validated_response |->
             IF Len(lines) > 1 THEN StripRest(lines[2]) ELSE response]

(***************************************************************************)
(* What the LLM may answer.                                                *)
(***************************************************************************)
GenOutputs == {R1, R2}
HtmlOutputs == {Html1, Html2}

Pads == UNION {{Text(" ", n), Text("\r", n)} : n \in 0..MaxPad}
FirstLines == {a \o w \o b : a \in Pads, w \in {VALID, INVALID, Garbage}, b \in Pads}
Remainders == {a \o w \o b : a \in Pads, w \in {Foo, Foo \o NL \o Bar, <<>>}, b \in Pads}

\* The validator outputs validate_response is applied to on its own.
ValidatorOutputsAll == FirstLines \cup {f \o NL \o r : f \in FirstLines, r \in Remainders}

\* The validator outputs drawn inside response_bot.
ValidatorOutputs ==
    {VALID \o NL \o Foo, INVALID \o NL \o Foo, Garbage, VALID,
     <<" ">> \o VALID \o <<" ">> \o NL \o <<" ">> \o Foo \o NL}

(***************************************************************************)
(* The tables.                                                             *)
(*   users          [id, username, email]                                  *)
(*   chat_sessions  [id, user_id, initial_message]                         *)
(*   messages       [id, session_id, content, is_bot, timestamp]           *)
(***************************************************************************)
Usernames == {"alice", "bob"}
Emails == {"a@x.com", "b@x.com"}

\* Query.session_id defaults to None: the request names no session.
NoSession == 0

Alice == [id |-> 1, username |-> "alice", email |-> "a@x.com"]
Bob == [id |-> 2, username |-> "bob", email |-> "b@x.com"]

UniqueUsernameOnly(table, username, email) ==
    \E u \in table : u.username = username

\* users.username and users.email are unique columns: an insert of a row
\* that repeats either is refused by the database.
UniqueViolation(table, username, email) ==
    \E u \in table : u.username = username \/ u.email = email

NextId(table) == IF table = {} THEN 1 ELSE MaxOf({row.id : row \in table}) + 1

\* The default of messages.timestamp: the time of the insert.
Now(table) == IF table = {} THEN 1 ELSE MaxOf({m.timestamp : m \in table}) + 1

\* The rows a db session inserts for its pending Message objects, in the
\* order they were added.
RECURSIVE Inserted(_, _)
Inserted(table, pending) ==
    IF pending = <<>>
    THEN table
    ELSE Inserted(table \cup {[id |-> NextId(table),
                               session_id |-> Head(pending).session_id,
                               content |-> Head(pending).content,
                               is_bot |-> Head(pending).is_bot,
                               timestamp |-> Now(table)]},
                  Tail(pending))

AutoflushOn == TRUE

\* sessionmaker(autocommit=False, autoflush=False, bind=engine)
autoflush == FALSE

\* The message rows a query of a db session sees: with autoflush the
\* session first inserts its pending objects, without it only committed
\* rows are read.
Visible(table, pending) ==
    IF autoflush THEN Inserted(table, pending) ELSE table

CloseCommits(committed, flushed) == flushed

\* get_db: the session is closed when the request ends, whatever happened;
\* close() discards what was never committed.
CloseSession(committed, flushed) == committed

\* auth.get_current_user: the bearer token of a request names a stored user.
get_current_user == users

\* ORDER BY timestamp ASC: every order of the rows that ascends; rows of
\* equal timestamp come in any order.
RECURSIVE OrderAsc(_)
OrderAsc(rows) ==
    IF rows = {}
    THEN {<<>>}
    ELSE UNION {{<<x>> \o t : t \in OrderAsc(rows \ {x})} :
                x \in {y \in rows : \A z \in rows : y.timestamp <= z.timestamp}}

\* ORDER BY max(timestamp) DESC
RECURSIVE OrderLastDesc(_)
OrderLastDesc(rows) ==
    IF rows = {}
    THEN {<<>>}
    ELSE UNION {{<<x>> \o t : t \in OrderLastDesc(rows \ {x})} :
                x \in {y \in rows : \A z \in rows : y.last_message >= z.last_message}}

(***************************************************************************)
(* POST /register.  The handler is a plain def, which the framework runs   *)
(* on a worker thread: its check and its insert are separate steps that    *)
(* interleave with other requests.                                         *)
(***************************************************************************)
RegIds == 1..MaxReg

IdleReg == [pc |-> "idle", username |-> "", email |-> "", status |-> 0,
            existing |-> FALSE]

\* register_user, up to the duplicate check
register_user_check(r) ==
    /\ regs[r].pc = "idle"
    /\ \E username \in Usernames, email \in Emails :
         LET existing_user ==
                 \E u \in users : u.username = username \/ u.email = email
         IN  regs' = [regs EXCEPT ![r] =
                 [pc |-> IF existing_user THEN "done" ELSE "create",
                  username |-> username, email |-> email,
                  status |-> IF existing_user THEN 400 ELSE 0,
                  existing |-> existing_user]]
    /\ UNCHANGED <<users, sessions, messages, resps, bot, vcall, reply>>

\* auth.create_user: one row is inserted and committed; a constraint
\* violation is not caught.
create_user(table, username, email) ==
    table \cup {[id |-> NextId(table), username |-> username, email |-> email]}

\* register_user, from create_user on: the insert is refused when it
\* repeats a unique column, and the error reaches the framework as a 500
register_user_create(r) ==
    /\ regs[r].pc = "create"
    /\ IF UniqueViolation(users, regs[r].username, regs[r].email)
       THEN /\ regs' = [regs EXCEPT ![r].pc = "done", ![r].status = 500]
            /\ UNCHANGED users
       ELSE /\ users' = create_user(users, regs[r].username, regs[r].email)
            /\ regs' = [regs EXCEPT ![r].pc = "done", ![r].status = 200]
    /\ UNCHANGED <<sessions, messages, resps, bot, vcall, reply>>

(***************************************************************************)
(* response_bot and the LLM calls it makes.                                *)
(***************************************************************************)
IdleBot ==
    [pc |-> "idle", caller |-> 0, user |-> 0, query |-> <<>>, session_id |-> 0,
     pending |-> <<>>, history |-> <<>>, sent |-> <<>>, correction |-> <<>>,
     initial_response |-> <<>>, validation_result |-> <<>>, is_valid |-> FALSE,
     suggested |-> <<>>, regenerated |-> <<>>, validated_response |-> <<>>,
     formatted |-> <<>>, result |-> <<>>, calls |-> <<>>]

\* A call response_bot(llm, system_prompt, query, session_id, db): `pending`
\* are the Message objects added to db and not yet flushed; `user` is the
\* authenticated user the call is made for, which response_bot is not given.
BotCall(caller, user, query, session_id, pending) ==
    [IdleBot EXCEPT !.pc = "compose", !.caller = caller, !.user = user,
                    !.query = query, !.session_id = session_id,
                    !.pending = pending]

Message(role, content) == [role |-> role, content |-> content]

\* bot rows become AIMessage, user rows HumanMessage
ChatHistory(rows) ==
    [i \in 1..Len(rows) |->
        Message(IF rows[i].is_bot THEN "ai" ELSE "human", rows[i].content)]

\* response_bot: the history query and the message list
response_bot_compose ==
    /\ bot.pc = "compose"
    /\ \E rows \in OrderAsc({m \in Visible(messages, bot.pending) :
                                m.session_id = bot.session_id}) :
         bot' = [bot EXCEPT
             !.pc = "generate",
             !.history = rows,
             !.sent = <<Message("system", system_prompt)>>
                      \o ChatHistory(rows)
                      \o <<Message("human", bot.query)>>]
    /\ UNCHANGED <<users, sessions, messages, regs, resps, vcall, reply>>

\* initial_response = llm(messages).content
response_bot_generate ==
    /\ bot.pc = "generate"
    /\ \/ \E out \in GenOutputs :
            bot' = [bot EXCEPT !.pc = "validate", !.initial_response = out,
                               !.calls = Append(@, "generate")]
       \/ bot' = [bot EXCEPT !.pc = "raised", !.calls = Append(@, "generate")]
    /\ UNCHANGED <<users, sessions, messages, regs, resps, vcall, reply>>

NeverRegenerate(is_valid) == FALSE

\* if not is_valid:
NeedsRegeneration(is_valid) == ~is_valid

\* is_valid, validated_response = validate_response(initial_response, query, llm)
response_bot_validate ==
    /\ bot.pc = "validate"
    /\ \/ \E out \in ValidatorOutputs :
            LET parsed == ParseValidation(out, bot.initial_response)
            IN  bot' = [bot EXCEPT
                    !.pc = IF NeedsRegeneration(parsed.is_valid)
                           THEN "regenerate" ELSE "format",
                    !.validation_result = out,
                    !.is_valid = parsed.is_valid,
                    !.suggested = parsed.validated_response,
                    !.validated_response = parsed.validated_response,
                    !.calls = Append(@, "validate")]
       \/ bot' = [bot EXCEPT !.pc = "raised", !.calls = Append(@, "validate")]
    /\ UNCHANGED <<users, sessions, messages, regs, resps, vcall, reply>>

Revalidate == "validate"

\* What follows the regeneration: return format_to_html(validated_response, llm)
AfterRegeneration == "format"

\* validated_response = llm(correction_messages).content
response_bot_regenerate ==
    /\ bot.pc = "regenerate"
    /\ LET correction_messages ==
               <<Message("system", system_prompt \o ImportantNotice)>>
               \o ChatHistory(bot.history)
               \o <<Message("human", bot.query),
                    Message("human", CorrectionRequest)>>
       IN  \/ \E out \in GenOutputs :
                 bot' = [bot EXCEPT !.pc = AfterRegeneration,
                                    !.correction = correction_messages,
                                    !.regenerated = out,
                                    !.validated_response = out,
                                    !.calls = Append(@, "regenerate")]
           \/ bot' = [bot EXCEPT !.pc = "raised",
                                 !.correction = correction_messages,
                                 !.calls = Append(@, "regenerate")]
    /\ UNCHANGED <<users, sessions, messages, regs, resps, vcall, reply>>

\* return format_to_html(validated_response, llm)
format_to_html ==
    /\ bot.pc = "format"
    /\ \/ \E html \in HtmlOutputs :
            bot' = [bot EXCEPT !.pc = "returned",
                               !.formatted = bot.validated_response,
                               !.result = html,
                               !.calls = Append(@, "format")]
       \/ bot' = [bot EXCEPT !.pc = "raised",
                             !.formatted = bot.validated_response,
                             !.calls = Append(@, "format")]
    /\ UNCHANGED <<users, sessions, messages, regs, resps, vcall, reply>>

(***************************************************************************)
(* validate_response called on its own.                                    *)
(***************************************************************************)
IdleValidate ==
    [pc |-> "idle", response |-> <<>>, validation_result |-> <<>>,
     is_valid |-> FALSE, validated_response |-> <<>>]

validate_response ==
    /\ vcall.pc = "call"
    /\ \/ \E out \in ValidatorOutputsAll :
            LET parsed == ParseValidation(out, vcall.response)
            IN  vcall' = [vcall EXCEPT
                    !.pc = "returned",
                    !.validation_result = out,
                    !.is_valid = parsed.is_valid,
                    !.validated_response = parsed.validated_response]
       \/ vcall' = [vcall EXCEPT !.pc = "raised"]
    /\ UNCHANGED <<users, sessions, messages, regs, resps, bot, reply>>

(***************************************************************************)
(* POST /respond.                                                          *)
(***************************************************************************)
RespIds == 1..MaxResp

IdleResp ==
    [pc |-> "idle", user |-> 0, query |-> <<>>, sid_in |-> NoSession,
     session_id |-> NoSession, new_sessions |-> {}, new_messages |-> <<>>,
     status |-> 0, error |-> "", response |-> <<>>]

\* str(uuid.uuid4()): an id that no stored session has, that no other
\* request draws and that no client knows yet
uuid4(r) == 1000 * (Cardinality(sessions) + 1) + r

\* The session ids a client may send: those of the stored sessions and one
\* that names no session.
ClientSessionIds == {s.id : s \in sessions} \cup {NextId(sessions)}

\* def response_bot(llm, system_prompt, query, session_id, db): no defaults
response_bot_parameters == {"llm", "system_prompt", "query", "session_id", "db"}

\* The keywords of the call get_response makes
response_bot_call_keywords == {"llm", "system_prompt", "query", "session_id"}

\* A Python call binds when every parameter without a default is given.
Binds(keywords, parameters) == parameters \subseteq keywords

\* get_response, up to the call of response_bot: the new session and the
\* user message are added to the db session, nothing is flushed.  A worker
\* that has answered a request takes the next one.
get_response_begin(r) ==
    /\ resps[r].pc \in {"idle", "done"}
    /\ \E current_user \in get_current_user, query \in Queries,
          sid \in {NoSession} \cup ClientSessionIds :
         LET session_id == IF sid = NoSession THEN uuid4(r) ELSE sid
         IN  resps' = [resps EXCEPT ![r] =
                 [IdleResp EXCEPT
                     !.pc = "call",
                     !.user = current_user.id,
                     !.query = query,
                     !.sid_in = sid,
                     !.session_id = session_id,
                     !.new_sessions =
                         IF sid = NoSession
                         THEN {[id |-> session_id, user_id |-> current_user.id,
                                initial_message |-> query]}
                         ELSE {},
                     !.new_messages =
                         <<[session_id |-> session_id, content |-> query,
                            is_bot |-> FALSE]>>]]
    /\ UNCHANGED <<users, sessions, messages, regs, bot, vcall, reply>>

\* get_response: bot_response = response_bot(llm=..., system_prompt=...,
\* query=..., session_id=...)
get_response_call(r) ==
    /\ resps[r].pc = "call"
    /\ IF Binds(response_bot_call_keywords, response_bot_parameters)
       THEN /\ bot.pc = "idle"
            /\ bot' = BotCall(r, resps[r].user, resps[r].query,
                              resps[r].session_id, resps[r].new_messages)
            /\ resps' = [resps EXCEPT ![r].pc = "bot"]
       ELSE /\ resps' = [resps EXCEPT ![r].pc = "raised",
                                      ![r].error = "TypeError"]
            /\ UNCHANGED bot
    /\ UNCHANGED <<users, sessions, messages, regs, vcall, reply>>

\* get_response, after the call: the bot message, the one commit and the
\* reply; or the error, which nothing catches.  Then get_db closes the
\* db session.
get_response_end(r) ==
    /\ \/ resps[r].pc = "raised"
       \/ /\ resps[r].pc = "bot"
          /\ bot.caller = r
          /\ bot.pc \in {"returned", "raised"}
    /\ LET returned == resps[r].pc = "bot" /\ bot.pc = "returned"
           bot_message == [session_id |-> resps[r].session_id,
                           content |-> bot.result, is_bot |-> TRUE]
           added == IF returned
                    THEN Append(resps[r].new_messages, bot_message)
                    ELSE resps[r].new_messages
           flushed_sessions == sessions \cup resps[r].new_sessions
           flushed_messages == Inserted(messages, added)
       IN  /\ sessions' = IF returned
                          THEN flushed_sessions
                          ELSE CloseSession(sessions, flushed_sessions)
           /\ messages' = IF returned
                          THEN flushed_messages
                          ELSE CloseSession(messages, flushed_messages)
           /\ resps' = [resps EXCEPT
                  ![r].pc = "done",
                  ![r].status = IF returned THEN 200 ELSE 500,
                  ![r].response = IF returned THEN bot.result ELSE <<>>]
           /\ bot' = IF resps[r].pc = "bot" THEN IdleBot ELSE bot
    /\ UNCHANGED <<users, regs, vcall, reply>>

(***************************************************************************)
(* The read handlers.                                                      *)
(***************************************************************************)
NoReply ==
    [handler |-> "", user |-> 0, session_id |-> NoSession, status |-> 0,
     detail |-> "", body |-> <<>>]

\* The longest initial message shown in full
LabelLen == 30

\* session.initial_message[:30] + "..." if len(session.initial_message) > 30
\* else session.initial_message
SessionName(initial_message) ==
    IF Len(initial_message) > LabelLen
    THEN SubSeq(initial_message, 1, LabelLen) \o <<".", ".", ".">>
    ELSE initial_message

\* ChatSession joined with Message, filtered by owner, grouped by session
SessionRows(user_id) ==
    {[id |-> s.id, initial_message |-> s.initial_message,
      last_message |-> MaxOf({m.timestamp : m \in
                                 {x \in messages : x.session_id = s.id}})] :
        s \in {t \in sessions : /\ t.user_id = user_id
                                /\ \E m \in messages : m.session_id = t.id}}

\* GET /user/sessions
get_user_sessions ==
    /\ \E current_user \in get_current_user :
         \E rows \in OrderLastDesc(SessionRows(current_user.id)) :
            reply' = [NoReply EXCEPT
                !.handler = "sessions",
                !.user = current_user.id,
                !.status = 200,
                !.body = [i \in 1..Len(rows) |->
                             [session_name |-> SessionName(rows[i].initial_message),
                              session_id |-> rows[i].id,
                              last_message |-> rows[i].last_message]]]
    /\ UNCHANGED <<users, sessions, messages, regs, resps, bot, vcall>>

AnySession(s, session_id, user_id) == s.id = session_id

\* ChatSession.id == session_id, ChatSession.user_id == current_user.id
OwnSession(s, session_id, user_id) ==
    s.id = session_id /\ s.user_id = user_id

\* GET /user/sessions/{session_id}/messages
get_session_messages ==
    /\ \E current_user \in get_current_user, session_id \in ClientSessionIds :
         LET session == {s \in sessions :
                            OwnSession(s, session_id, current_user.id)}
         IN  IF session = {}
             THEN reply' = [NoReply EXCEPT
                      !.handler = "messages",
                      !.user = current_user.id,
                      !.session_id = session_id,
                      !.status = 404,
                      !.detail = "Session not found"]
             ELSE \E rows \in OrderAsc({m \in messages :
                                           m.session_id = session_id}) :
                      reply' = [NoReply EXCEPT
                          !.handler = "messages",
                          !.user = current_user.id,
                          !.session_id = session_id,
                          !.status = 200,
                          !.body = [i \in 1..Len(rows) |->
                                       [content |-> rows[i].content,
                                        isBot |-> rows[i].is_bot,
                                        timestamp |-> rows[i].timestamp]]]
    /\ UNCHANGED <<users, sessions, messages, regs, resps, bot, vcall>>

(***************************************************************************)
(* The server as shipped, on an empty database.                            *)
(***************************************************************************)
Init ==
    /\ users = {}
    /\ sessions = {}
    /\ messages = {}
    /\ regs = [r \in RegIds |-> IdleReg]
    /\ resps = [r \in RespIds |-> IdleResp]
    /\ bot = IdleBot
    /\ vcall = IdleValidate
    /\ reply = NoReply

Next ==
    \/ \E r \in RegIds : register_user_check(r)
    \/ \E r \in RegIds : register_user_create(r)
    \/ \E r \in RespIds : get_response_begin(r)
    \/ \E r \in RespIds : get_response_call(r)
    \/ \E r \in RespIds : get_response_end(r)
    \/ get_user_sessions
    \/ get_session_messages

Spec == Init /\ [][Next]_vars

(***************************************************************************)
(* response_bot called with a db session, on drawn message tables.         *)
(***************************************************************************)
\* Session 1 is Alice's, session 2 is Bob's.
TwoSessions ==
    {[id |-> 1, user_id |-> Alice.id, initial_message |-> Q1],
     [id |-> 2, user_id |-> Bob.id, initial_message |-> Q1]}

RowChoices == [session_id : {1, 2}, is_bot : BOOLEAN, timestamp : {1, 2}]

DrawnMessages ==
    UNION {{{[id |-> i,
              session_id |-> f[i].session_id,
              content |-> IF f[i].is_bot THEN R1 ELSE Q1,
              is_bot |-> f[i].is_bot,
              timestamp |-> f[i].timestamp] : i \in 1..n} :
            f \in [1..n -> RowChoices]} : n \in 0..MaxHist}

InitBot ==
    /\ users = {Alice, Bob}
    /\ sessions = TwoSessions
    /\ messages \in DrawnMessages
    /\ regs = [r \in RegIds |-> IdleReg]
    /\ resps = [r \in RespIds |-> IdleResp]
    /\ \E user \in users, query \in Queries, s \in sessions :
         \E pending \in {<<>>, <<[session_id |-> s.id, content |-> query,
                                  is_bot |-> FALSE]>>} :
            bot = BotCall(0, user.id, query, s.id, pending)
    /\ vcall = IdleValidate
    /\ reply = NoReply

NextBot ==
    \/ response_bot_compose
    \/ response_bot_generate
    \/ response_bot_validate
    \/ response_bot_regenerate
    \/ format_to_html

SpecBot == InitBot /\ [][NextBot]_vars

(***************************************************************************)
(* validate_response on drawn validator outputs.                           *)
(***************************************************************************)
InitParse ==
    /\ users = {}
    /\ sessions = {}
    /\ messages = {}
    /\ regs = [r \in RegIds |-> IdleReg]
    /\ resps = [r \in RespIds |-> IdleResp]
    /\ bot = IdleBot
    /\ \E response \in GenOutputs :
         vcall = [IdleValidate EXCEPT !.pc = "call", !.response = response]
    /\ reply = NoReply

NextParse == validate_response

SpecParse == InitParse /\ [][NextParse]_vars

(***************************************************************************)
(* The read handlers on drawn tables: n sessions, the first k of them      *)
(* Alice's and the others Bob's, each with a user message and a bot        *)
(* message, timestamps ascending, descending or with a tie, the last       *)
(* session possibly without messages.                                      *)
(***************************************************************************)
Stamp(pattern, n, i) ==
    CASE pattern = "ascending" -> 2 * i
      [] pattern = "descending" -> 2 * (n - i + 1)
      [] OTHER -> IF i = n /\ n > 1 THEN 2 * (n - 1) ELSE 2 * i

DrawnSessions(n, k) ==
    {[id |-> i,
      user_id |-> IF i <= k THEN Alice.id ELSE Bob.id,
      initial_message |-> Text("x", LabelLen - 1 + (i % 3))] : i \in 1..n}

DrawnTurns(n, pattern, last_empty) ==
    UNION {{[id |-> 2 * i - 1, session_id |-> i, content |-> Text("u", i),
             is_bot |-> FALSE, timestamp |-> Stamp(pattern, n, i)],
            [id |-> 2 * i, session_id |-> i, content |-> Text("b", i),
             is_bot |-> TRUE, timestamp |-> Stamp(pattern, n, i) + 1]} :
           i \in IF last_empty THEN 1..(n - 1) ELSE 1..n}

InitStore ==
    /\ users = {Alice, Bob}
    /\ \E n \in 0..MaxSessions :
         \E k \in 0..n, pattern \in {"ascending", "descending", "tie"},
            last_empty \in BOOLEAN :
            /\ sessions = DrawnSessions(n, k)
            /\ messages = DrawnTurns(n, pattern, last_empty)
    /\ regs = [r \in RegIds |-> IdleReg]
    /\ resps = [r \in RespIds |-> IdleResp]
    /\ bot = IdleBot
    /\ vcall = IdleValidate
    /\ reply = NoReply

NextStore ==
    \/ get_user_sessions
    \/ get_session_messages

SpecStore == InitStore /\ [][NextStore]_vars

(***************************************************************************)
(* The claims.                                                             *)
(***************************************************************************)

\* C1: GET /user/sessions/{S}/messages answers the owner of S with exactly
\* the messages of S, in ascending timestamp order, and answers every other
\* user with 404 "Session not found" and no message content.
C1_OwnershipCheck ==
    reply.handler = "messages" =>
        LET owned == \E s \in sessions :
                        s.id = reply.session_id /\ s.user_id = reply.user
            rows == {m \in messages : m.session_id = reply.session_id}
            body == reply.body
        IN  /\ owned =>
                /\ reply.status = 200
                /\ Len(body) = Cardinality(rows)
                /\ \A i \in 1..Len(body) :
                     \E m \in rows : /\ m.content = body[i].content
                                     /\ m.is_bot = body[i].isBot
                                     /\ m.timestamp = body[i].timestamp
                /\ \A m \in rows : \E i \in 1..Len(body) :
                     body[i].content = m.content
                /\ \A i, j \in 1..Len(body) :
                     i < j => body[i].timestamp <= body[j].timestamp
            /\ ~owned =>
                /\ reply.status = 404
                /\ reply.detail = "Session not found"
                /\ body = <<>>

\* C1 witness: a user asked for a session with messages that another user
\* owns, and was answered 404.
C1_Witness ==
    /\ reply.handler = "messages"
    /\ reply.status = 404
    /\ \E s \in sessions : /\ s.id = reply.session_id
                           /\ s.user_id # reply.user
                           /\ \E m \in messages : m.session_id = s.id

C3_RegisterAmended ==
    /\ \A u1, u2 \in users :
         u1 # u2 => /\ u1.username # u2.username
                    /\ u1.email # u2.email
                    /\ u1.id # u2.id
    /\ Cardinality(users) = Cardinality({r \in RegIds : regs[r].status = 200})
    /\ \A r \in RegIds :
         regs[r].pc = "done" =>
            LET taken == \E u \in users : \/ u.username = regs[r].username
                                          \/ u.email = regs[r].email
                mine == \E u \in users : /\ u.username = regs[r].username
                                         /\ u.email = regs[r].email
            IN  /\ regs[r].status \in {200, 400, 500}
                /\ regs[r].status = 200 => mine /\ ~regs[r].existing
                /\ regs[r].status = 400 <=> regs[r].existing
                /\ regs[r].status # 200 => taken

\* C3 witness: one request created a user and another, with the same
\* username, was answered 400.
C3_Witness ==
    \E r1, r2 \in RegIds :
        /\ regs[r1].status = 200
        /\ regs[r2].status = 400
        /\ regs[r1].username = regs[r2].username

\* C3, as claimed: a request that created no user was answered 400, whatever
\* the interleaving, and no two stored users share a username or an email.
C3_Original ==
    /\ \A u1, u2 \in users :
         u1 # u2 => u1.username # u2.username /\ u1.email # u2.email
    /\ \A r \in RegIds :
         (regs[r].pc = "done" /\ regs[r].status # 200) => regs[r].status = 400

\* C4, amended: the status is valid exactly when the first line, with the
\* whitespace around it removed, is VALID; the text is what follows the
\* first line break with the whitespace around it removed when there is a
\* line break, else the response passed in.
C4_ParseAmended ==
    vcall.pc = "returned" =>
        LET v == vcall.validation_result
            cut == CHOOSE i \in 1..(Len(v) + 1) :
                       /\ i = Len(v) + 1 \/ v[i] = "\n"
                       /\ \A j \in 1..(i - 1) : v[j] # "\n"
            first == SubSeq(v, 1, cut - 1)
            rest == SubSeq(v, cut + 1, Len(v))
            Trimmed(t, s) ==
                \E a \in 0..Len(s) :
                    /\ a + Len(t) <= Len(s)
                    /\ SubSeq(s, a + 1, a + Len(t)) = t
                    /\ \A i \in 1..a : s[i] \in Whitespace
                    /\ \A i \in (a + Len(t) + 1)..Len(s) : s[i] \in Whitespace
                    /\ t # <<>> => t[1] \notin Whitespace
                    /\ t # <<>> => t[Len(t)] \notin Whitespace
        IN  /\ vcall.is_valid <=> Trimmed(VALID, first)
            /\ cut <= Len(v) => Trimmed(vcall.validated_response, rest)
            /\ cut > Len(v) => vcall.validated_response = vcall.response
            /\ v = VALID \o NL \o Foo =>
                 vcall.is_valid /\ vcall.validated_response = Foo
            /\ v = Garbage =>
                 ~vcall.is_valid /\ vcall.validated_response = vcall.response

\* C4 witness: the validator answered "VALID\nFoo" and the parse gave
\* (valid, "Foo").
C4_Witness ==
    /\ vcall.pc = "returned"
    /\ vcall.validation_result = VALID \o NL \o Foo
    /\ vcall.is_valid
    /\ vcall.validated_response = Foo

\* C4, as claimed: the status is valid exactly when the first line is VALID,
\* and the text is the remainder after the first line break when there is
\* one, else the response passed in.
C4_Original ==
    vcall.pc = "returned" =>
        LET v == vcall.validation_result
            cut == CHOOSE i \in 1..(Len(v) + 1) :
                       /\ i = Len(v) + 1 \/ v[i] = "\n"
                       /\ \A j \in 1..(i - 1) : v[j] # "\n"
        IN  /\ vcall.is_valid <=> SubSeq(v, 1, cut - 1) = VALID
            /\ cut <= Len(v) =>
                 vcall.validated_response = SubSeq(v, cut + 1, Len(v))
            /\ cut > Len(v) => vcall.validated_response = vcall.response

\* C5, as claimed: GET /user/sessions returns at most 10 sessions, all owned
\* by the caller, most recent last activity first, each labelled with a
\* truncated prefix of its initial message and carrying its last activity.
C5_Original ==
    reply.handler = "sessions" =>
        LET body == reply.body
        IN  /\ Len(body) <= 10
            /\ \A i \in 1..Len(body) :
                 \E s \in sessions :
                    /\ s.id = body[i].session_id
                    /\ s.user_id = reply.user
                    /\ \E n \in 0..Len(s.initial_message) :
                         SubSeq(body[i].session_name, 1, n)
                             = SubSeq(s.initial_message, 1, n)
                         /\ (n = Len(s.initial_message)
                             \/ Len(body[i].session_name) = n + 3)
                    /\ \E m \in messages :
                         /\ m.session_id = s.id
                         /\ m.timestamp = body[i].last_message
                    /\ \A m \in messages :
                         m.session_id = s.id =>
                            m.timestamp <= body[i].last_message
            /\ \A i, j \in 1..Len(body) :
                 i < j => body[i].last_message >= body[j].last_message

C7_RegenerateOnInvalid ==
    bot.pc \in {"format", "returned"} =>
        LET regenerations ==
                {i \in 1..Len(bot.calls) : bot.calls[i] = "regenerate"}
        IN  IF bot.is_valid
            THEN /\ regenerations = {}
                 /\ bot.correction = <<>>
                 /\ bot.pc = "returned" => bot.formatted = bot.suggested
            ELSE /\ Cardinality(regenerations) = 1
                 /\ bot.correction[1] =
                        Message("system", system_prompt \o ImportantNotice)
                 /\ bot.regenerated \in GenOutputs
                 /\ bot.pc = "returned" => bot.formatted = bot.regenerated

\* C7 witness: the validator answered "INVALID\nFoo" and the formatter was
\* handed the regenerated text, not Foo.
C7_Witness ==
    /\ bot.pc = "returned"
    /\ bot.validation_result = INVALID \o NL \o Foo
    /\ ~bot.is_valid
    /\ bot.suggested = Foo
    /\ bot.formatted = bot.regenerated
    /\ bot.formatted # Foo

C9_MessageSequence ==
    bot.pc \notin {"idle", "compose"} =>
        LET stored == {m \in messages : m.session_id = bot.session_id}
            n == Cardinality(stored)
        IN  /\ Len(bot.sent) = n + 2
            /\ Len(bot.history) = n
            /\ bot.sent[1] = Message("system", system_prompt)
            /\ bot.sent[Len(bot.sent)] = Message("human", bot.query)
            /\ \A i \in 1..Len(bot.history) :
                 /\ bot.history[i] \in stored
                 /\ bot.sent[i + 1].content = bot.history[i].content
                 /\ bot.sent[i + 1].role =
                        (IF bot.history[i].is_bot THEN "ai" ELSE "human")
            /\ \A i, j \in 1..Len(bot.history) :
                 i < j => /\ bot.history[i] # bot.history[j]
                          /\ bot.history[i].timestamp <= bot.history[j].timestamp

\* C9 witness: the db session holds the pending user message of the request,
\* the session has a stored user message and a stored bot message, and the
\* sequence has been composed.
C9_Witness ==
    /\ bot.pc = "generate"
    /\ bot.pending # <<>>
    /\ \E u, b \in messages : /\ u.session_id = bot.session_id
                              /\ b.session_id = bot.session_id
                              /\ ~u.is_bot
                              /\ b.is_bot
                              /\ u.timestamp < b.timestamp
    /\ Len(bot.sent) = 4

\* C10: a call of response_bot makes its LLM calls in the order Generate,
\* Validate, at most one regeneration, Format; never more than 4; exactly 3
\* when the validator said VALID and exactly 4 otherwise when it returns,
\* and it returns the formatter's output.
C10_LinearRun ==
    LET valid_run == <<"generate", "validate", "format">>
        invalid_run == <<"generate", "validate", "regenerate", "format">>
        n == Len(bot.calls)
    IN  /\ n <= 4
        /\ \/ n <= 3 /\ bot.calls = SubSeq(valid_run, 1, n)
           \/ n <= 4 /\ bot.calls = SubSeq(invalid_run, 1, n)
        /\ bot.pc = "returned" =>
             /\ bot.calls = (IF bot.is_valid THEN valid_run ELSE invalid_run)
             /\ bot.result \in HtmlOutputs
        /\ bot.pc = "raised" => n >= 1 /\ bot.result = <<>>

\* C10 witness: a call returned after four LLM calls.
C10_Witness ==
    /\ bot.pc = "returned"
    /\ Len(bot.calls) = 4
    /\ ~bot.is_valid

====
